---- MODULE Spec2Model ----
(***************************************************************************)
(* Model of the sweep server of sol-transfer-backend.  Two programs share  *)
(* the design: the server with the fee check (src/unnamed/part_000) and    *)
(* the server with the push channel (src/api/index.js).  The variable      *)
(* `program` says which of the two is running.  Spec is the server with    *)
(* no streaming client; SpecPush adds the clients of the push channel.     *)
(***************************************************************************)
EXTENDS Integers, Sequences, FiniteSets, Bags, TLC

VARIABLES
  program,          \* which source file is the running server
  monitoringTasks,  \* let monitoringTasks = {} : own keys -> stored entry
  subscriptions,    \* the gateway's subscriptions, by handle, open or removed
  transactionLog,   \* let transactionLog = []
  sweeps,           \* the bag of handler invocations with a positive amount
  exited,           \* the process has ended on an unhandled promise rejection
  clients           \* wss.clients and the sockets that have closed: socket -> state

vars == <<program, monitoringTasks, subscriptions, transactionLog, sweeps, exited, clients>>

----------------------------------------------------------------------------
(* Bounds of the model *)

MaxStarts == 2      \* successful start-monitoring requests
MaxSweeps == 2      \* handler invocations with a positive amount
MaxRetries == 3     \* largest `retries` argument tried on the retrier alone

----------------------------------------------------------------------------
(* Program constants *)

transactionFee == 5000
DefaultRetries == 3
LAMPORTS_PER_SOL == 1000000000

Programs == {"part_000", "api"}

(* Inputs of the requests and of the gateway *)
Addresses == {"AddrA"}
Mints == {"undefined", "MintA"}
ObjectPrototypeKeys == {"constructor"}
StopKeys == Addresses \cup ObjectPrototypeKeys \cup {"AddrZ"}

(* The bodies of the start requests tried: both asset kinds with a good seed
   and a good destination, a seed whose derivation fails, a malformed
   destination *)
StartRequests ==
  { [seed |-> "seedA", secureWalletPublicKey |-> "Dest", tokenMintAddress |-> m] : m \in Mints }
  \cup { [seed |-> "badSeed", secureWalletPublicKey |-> "Dest", tokenMintAddress |-> "undefined"],
         [seed |-> "seedA", secureWalletPublicKey |-> "notBase58", tokenMintAddress |-> "MintA"] }
Lamports == {0, 5000, 5001}
TokenAmounts == {0, 50}
PollOutcomes == {"success", "chainFailure", "error"}
Sockets == {"ws1"}

(* mnemonicToSeed + derivePath + Keypair.fromSeed + toBase58: the address a
   seed phrase stands for, or "throws" when the derivation fails *)
derivePath(seed) ==
  CASE seed = "seedA" -> "AddrA"
    [] OTHER -> "throws"

(* new PublicKey(secureWalletPublicKey) throws on a malformed key *)
ValidPublicKey(k) == k = "Dest"

(* JavaScript truthiness of the tokenMintAddress field of the request *)
Truthy(mint) == mint \notin {"undefined", ""}

----------------------------------------------------------------------------
(* State after the module is loaded *)

(* wss.clients of a server no client has connected to *)
NoClients == [ws \in {} |-> [readyState |-> "OPEN", received |-> <<>>]]

NoTasks == [k \in {} |-> [subscriptionId |-> 0, tokenMintAddress |-> "undefined"]]

Init ==
  /\ program \in Programs
  /\ monitoringTasks = NoTasks
  /\ subscriptions = <<>>
  /\ transactionLog = <<>>
  /\ sweeps = EmptyBag
  /\ exited = FALSE
  /\ clients = NoClients

----------------------------------------------------------------------------
(* The Ledger Gateway: subscriptions *)

(* The subscription call start-monitoring makes for this tokenMintAddress *)
SubscribeCall(mint) ==
  IF Truthy(mint) THEN "onTokenAccountChange" ELSE "onAccountChange"

(* Mutant: stop-monitoring ignores the stored tokenMintAddress *)
RemovalCall_AlwaysAccount(mint) == "removeAccountChangeListener"

(* The removal call stop-monitoring makes for the stored tokenMintAddress *)
RemovalCall(mint) ==
  IF Truthy(mint) THEN "removeProgramAccountChangeListener"
  ELSE "removeAccountChangeListener"

(* The removal call that undoes a subscription call *)
MatchingRemoval(call) ==
  IF call = "onTokenAccountChange" THEN "removeProgramAccountChangeListener"
  ELSE "removeAccountChangeListener"

(* A subscription delivers notifications until it is removed *)
Active(id) == subscriptions[id].removedBy = "none"

ActiveFor(a) == {id \in DOMAIN subscriptions : Active(id) /\ subscriptions[id].address = a}

(* The entry start-monitoring stores under the address *)
TaskEntry(id, mint) == [subscriptionId |-> id, tokenMintAddress |-> mint]

(* Mutant: an address that has an entry keeps it *)
PutTask_KeepExisting(tasks, address, entry) ==
  [k \in DOMAIN tasks \cup {address} |-> IF k \in DOMAIN tasks THEN tasks[k] ELSE entry]

(* monitoringTasks[address] = {...}: inserts or overwrites *)
PutTask(tasks, address, entry) ==
  [k \in DOMAIN tasks \cup {address} |-> IF k = address THEN entry ELSE tasks[k]]

(* delete monitoringTasks[publicKey] *)
DeleteTask(tasks, key) == [k \in DOMAIN tasks \ {key} |-> tasks[k]]

(* monitoringTasks[publicKey] on a plain object: an own entry, a value
   inherited from Object.prototype, or undefined *)
LookupTask(tasks, key) ==
  IF key \in DOMAIN tasks THEN "entry"
  ELSE IF key \in ObjectPrototypeKeys THEN "inherited"
  ELSE "undefined"

----------------------------------------------------------------------------
(* POST /start-monitoring *)

(* The status of the response: 500 from the catch block, else 200 *)
StartStatus(seed, secureWalletPublicKey) ==
  IF derivePath(seed) = "throws" \/ ~ValidPublicKey(secureWalletPublicKey)
  THEN 500 ELSE 200

(* Mutant: the subscription is opened before the destination key is parsed *)
StartMonitoring_SubscribeFirst(seed, secureWalletPublicKey, tokenMintAddress) ==
  LET address == derivePath(seed)
      id == Len(subscriptions) + 1
  IN /\ ~exited
     /\ IF address = "throws"
        THEN UNCHANGED vars
        ELSE /\ Len(subscriptions) < MaxStarts
             /\ subscriptions' = Append(subscriptions,
                   [address |-> address, to |-> secureWalletPublicKey,
                    tokenMintAddress |-> tokenMintAddress,
                    subscribedBy |-> SubscribeCall(tokenMintAddress),
                    removedBy |-> "none"])
             /\ monitoringTasks' =
                   IF ValidPublicKey(secureWalletPublicKey)
                   THEN PutTask(monitoringTasks, address, TaskEntry(id, tokenMintAddress))
                   ELSE monitoringTasks
             /\ UNCHANGED <<program, clients, transactionLog, sweeps, exited>>

StartMonitoring(seed, secureWalletPublicKey, tokenMintAddress) ==
  LET address == derivePath(seed)
      id == Len(subscriptions) + 1
  IN /\ ~exited
     /\ IF StartStatus(seed, secureWalletPublicKey) = 500
        THEN UNCHANGED vars
        ELSE /\ Len(subscriptions) < MaxStarts
             /\ subscriptions' = Append(subscriptions,
                   [address |-> address, to |-> secureWalletPublicKey,
                    tokenMintAddress |-> tokenMintAddress,
                    subscribedBy |-> SubscribeCall(tokenMintAddress),
                    removedBy |-> "none"])
             /\ monitoringTasks' = PutTask(monitoringTasks, address, TaskEntry(id, tokenMintAddress))
             /\ UNCHANGED <<program, clients, transactionLog, sweeps, exited>>

(* POST /stop-monitoring *)

(* The status of the response: 200 when the entry is found; 500 when the
   lookup yields an inherited value, whose destructuring leaves connection
   undefined so that the removal call throws a TypeError; else 400 *)
StopStatus(tasks, publicKey) ==
  CASE LookupTask(tasks, publicKey) = "entry" -> 200
    [] LookupTask(tasks, publicKey) = "inherited" -> 500
    [] OTHER -> 400

(* connection.remove...Listener(subscriptionId) *)
RemoveListener(subs, entry) ==
  [subs EXCEPT ![entry.subscriptionId].removedBy = RemovalCall(entry.tokenMintAddress)]

(* Mutant: stop also abandons the pipelines of the address that are under way *)
StopMonitoring_CancelSweeps(publicKey) ==
  /\ ~exited
  /\ IF LookupTask(monitoringTasks, publicKey) = "entry"
     THEN /\ subscriptions' = RemoveListener(subscriptions, monitoringTasks[publicKey])
          /\ monitoringTasks' = DeleteTask(monitoringTasks, publicKey)
          /\ sweeps' = [r \in {x \in BagToSet(sweeps) : x.pc = "done" \/ x.from # publicKey}
                           |-> sweeps[r]]
          /\ UNCHANGED <<program, clients, transactionLog, exited>>
     ELSE UNCHANGED vars

StopMonitoring(publicKey) ==
  /\ ~exited
  /\ IF LookupTask(monitoringTasks, publicKey) = "entry"
     THEN /\ subscriptions' = RemoveListener(subscriptions, monitoringTasks[publicKey])
          /\ monitoringTasks' = DeleteTask(monitoringTasks, publicKey)
          /\ UNCHANGED <<program, clients, transactionLog, sweeps, exited>>
     ELSE UNCHANGED vars

----------------------------------------------------------------------------
(* The sweep pipeline of one notification *)

(* lamports - transactionFee (part_000) / lamports - 5000 (api) *)
lamportsToTransfer(lamports) == lamports - transactionFee

(* The fee check: only part_000 has one *)
InsufficientFunds(prog, lamports) ==
  prog = "part_000" /\ lamportsToTransfer(lamports) <= 0

(* new Transaction().add(SystemProgram.transfer({... lamports})) *)
NativeTransaction(lamports) ==
  << [op |-> "SystemProgram.transfer", amount |-> lamportsToTransfer(lamports)] >>

(* Mutant: the transaction holds the transfer alone *)
TokenTransaction_TransferOnly(tokenAmount) ==
  << [op |-> "createTransfer", amount |-> tokenAmount] >>

(* new Transaction().add(createAssociatedTokenAccountInstruction(...),
                         createTransferInstruction(..., tokenAmount, ...)) *)
TokenTransaction(tokenAmount) ==
  << [op |-> "createAssociatedTokenAccount", amount |-> 0],
     [op |-> "createTransfer", amount |-> tokenAmount] >>

(* The `amount` field of the ledger entry, as the exact quotient num / den *)
NativeAmount(prog, lamports) ==
  IF prog = "part_000"
  THEN [num |-> lamportsToTransfer(lamports), den |-> LAMPORTS_PER_SOL]
  ELSE [num |-> lamports, den |-> LAMPORTS_PER_SOL]

TokenAmount(tokenAmount) == [num |-> tokenAmount, den |-> 1]

(* The signature the gateway returns for a submitted transaction: it is
   made from the signer and the transaction *)
NoSignature == [signer |-> "none", transaction |-> <<>>]

Signature(r) == [signer |-> r.from, transaction |-> r.transaction]

(* The handler a subscription call registers *)
HandlerOf(call) ==
  IF call = "onTokenAccountChange" THEN "handleTokenAccountChange" ELSE "handleAccountChange"

(* A handler invocation that has not yet reached its first await.  The
   handler closes over the keys of the start request that created it *)
NewSweep(id, observed) ==
  [handler |-> HandlerOf(subscriptions[id].subscribedBy),
   from |-> subscriptions[id].address, to |-> subscriptions[id].to,
   observed |-> observed, pc |-> "start", outcome |-> "none",
   transaction |-> <<>>, submits |-> 0, signature |-> NoSignature,
   retries |-> DefaultRetries, attempt |-> 0, pollLog |-> <<>>,
   confirmation |-> "none", thrown |-> 0, appended |-> 0, escaped |-> FALSE]

(* connection.sendTransaction(transaction, [compromisedWallet]) is called *)
Submit(r, transaction) ==
  [r EXCEPT !.pc = "submitting", !.transaction = transaction, !.submits = @ + 1]

(* The catch block of a handler.  part_000 names SendTransactionError, which
   it never imports: evaluating it raises a ReferenceError out of the handler *)
CatchBlock(prog, r, outcome) ==
  [r EXCEPT !.pc = "done", !.outcome = outcome, !.escaped = (prog = "part_000")]

(* The object pushed on transactionLog *)
LogEntry(r, amount) ==
  [signature |-> r.signature, from |-> r.from,
   to |-> r.to, amount |-> amount, status |-> "confirmed"]

(* Mutant: transactionLog.unshift(entry) *)
Push_Unshift(log, entry) == <<entry>> \o log

(* transactionLog.push(entry) *)
Push(log, entry) == Append(log, entry)

(* The amount the handler of this sweep logs *)
AmountOf(prog, r) ==
  IF r.handler = "handleAccountChange"
  THEN NativeAmount(prog, r.observed)
  ELSE TokenAmount(r.observed)

(* Mutant: an answer that reports an on-chain failure is retried like an error *)
confirmTransactionWithRetries_RetryOnChainFailure(r, outcome) ==
  LET log == Append(r.pollLog, outcome)
  IN IF ~(r.attempt < r.retries)
     THEN [r EXCEPT !.confirmation = "undefined", !.pc = "returned"]
     ELSE IF outcome = "success"
     THEN [r EXCEPT !.pollLog = log, !.confirmation = outcome, !.pc = "returned"]
     ELSE IF r.attempt = r.retries - 1
          THEN [r EXCEPT !.pollLog = log, !.thrown = Len(log), !.pc = "thrown"]
          ELSE [r EXCEPT !.pollLog = log, !.attempt = @ + 1]

(* Mutant: after the last attempt the error of the first attempt is thrown *)
confirmTransactionWithRetries_ThrowFirstError(r, outcome) ==
  LET log == Append(r.pollLog, outcome)
  IN IF ~(r.attempt < r.retries)
     THEN [r EXCEPT !.confirmation = "undefined", !.pc = "returned"]
     ELSE IF outcome # "error"
     THEN [r EXCEPT !.pollLog = log, !.confirmation = outcome, !.pc = "returned"]
     ELSE IF r.attempt = r.retries - 1
          THEN [r EXCEPT !.pollLog = log, !.thrown = 1, !.pc = "thrown"]
          ELSE [r EXCEPT !.pollLog = log, !.attempt = @ + 1]

(* Mutant: a retry sends the transaction again before it polls *)
confirmTransactionWithRetries_Resubmit(r, outcome) ==
  LET log == Append(r.pollLog, outcome)
  IN IF ~(r.attempt < r.retries)
     THEN [r EXCEPT !.confirmation = "undefined", !.pc = "returned"]
     ELSE IF outcome # "error"
     THEN [r EXCEPT !.pollLog = log, !.confirmation = outcome, !.pc = "returned"]
     ELSE IF r.attempt = r.retries - 1
          THEN [r EXCEPT !.pollLog = log, !.thrown = Len(log), !.pc = "thrown"]
          ELSE [r EXCEPT !.pollLog = log, !.attempt = @ + 1, !.submits = @ + 1]

(* One iteration of the loop of confirmTransactionWithRetries: the poll
   numbered r.attempt + 1 ends with `outcome` *)
confirmTransactionWithRetries(r, outcome) ==
  LET log == Append(r.pollLog, outcome)
  IN IF ~(r.attempt < r.retries)
     THEN \* the loop ends and the function falls off its end
          [r EXCEPT !.confirmation = "undefined", !.pc = "returned"]
     ELSE IF outcome # "error"
     THEN [r EXCEPT !.pollLog = log, !.confirmation = outcome, !.pc = "returned"]
     ELSE IF r.attempt = r.retries - 1
          THEN [r EXCEPT !.pollLog = log, !.thrown = Len(log), !.pc = "thrown"]
          ELSE [r EXCEPT !.pollLog = log, !.attempt = @ + 1]

(* The handler after the retrier returned: log, push, end.  The retrier's
   frame (its loop counter and the polls it made) is gone by then; the
   handler still holds `confirmation` *)
Confirmed(r) ==
  [r EXCEPT !.pc = "done", !.outcome = "confirmed", !.appended = @ + 1,
            !.pollLog = <<>>, !.attempt = 0]

(* The promise of an async handler that ended as `s`.  When an error escaped
   the handler the promise is rejected and nothing handles it: the runtime
   either only warns, or ends the process (the default since Node.js 15) *)
unhandledRejection(s) ==
  IF s.escaped THEN exited' \in BOOLEAN ELSE exited' = exited

(* The handler invocations, and one of them moving on *)
Frames == BagToSet(sweeps)

Started(r) == sweeps (+) SetToBag({r})

Moved(r, s) == (sweeps (-) SetToBag({r})) (+) SetToBag({s})

----------------------------------------------------------------------------
(* handleAccountChange up to its first await *)

(* Mutant: a notification is set aside while a sweep of the address is under way *)
handleAccountChange_Serialized(id, lamports) ==
  /\ ~exited
  /\ id \in DOMAIN subscriptions
  /\ Active(id)
  /\ subscriptions[id].subscribedBy = "onAccountChange"
  /\ IF lamports > 0
     THEN /\ BagCardinality(sweeps) < MaxSweeps
          /\ \A r \in Frames : r.from = subscriptions[id].address => r.pc = "done"
          /\ sweeps' = Started(
               IF InsufficientFunds(program, lamports)
               THEN [NewSweep(id, lamports) EXCEPT !.pc = "done", !.outcome = "insufficient"]
               ELSE Submit(NewSweep(id, lamports), NativeTransaction(lamports)))
     ELSE UNCHANGED sweeps
  /\ UNCHANGED <<program, clients, monitoringTasks, subscriptions, transactionLog, exited>>

handleAccountChange(id, lamports) ==
  /\ ~exited
  /\ id \in DOMAIN subscriptions
  /\ Active(id)
  /\ subscriptions[id].subscribedBy = "onAccountChange"
  /\ IF lamports > 0
     THEN /\ BagCardinality(sweeps) < MaxSweeps
          /\ sweeps' = Started(
               IF InsufficientFunds(program, lamports)
               THEN [NewSweep(id, lamports) EXCEPT !.pc = "done", !.outcome = "insufficient"]
               ELSE Submit(NewSweep(id, lamports), NativeTransaction(lamports)))
     ELSE UNCHANGED sweeps
  /\ UNCHANGED <<program, clients, monitoringTasks, subscriptions, transactionLog, exited>>

(* handleTokenAccountChange up to its first await *)

handleTokenAccountChange(id, tokenAmount) ==
  /\ ~exited
  /\ id \in DOMAIN subscriptions
  /\ Active(id)
  /\ subscriptions[id].subscribedBy = "onTokenAccountChange"
  /\ IF tokenAmount > 0
     THEN /\ BagCardinality(sweeps) < MaxSweeps
          /\ sweeps' = Started([NewSweep(id, tokenAmount) EXCEPT !.pc = "resolving"])
     ELSE UNCHANGED sweeps
  /\ UNCHANGED <<program, clients, monitoringTasks, subscriptions, transactionLog, exited>>

(* await getAssociatedTokenAddress(...) settles; it is outside the try *)

getAssociatedTokenAddress(r, ok) ==
  /\ ~exited
  /\ r.pc = "resolving"
  /\ LET s == IF ok THEN Submit(r, TokenTransaction(r.observed))
              ELSE [r EXCEPT !.pc = "done", !.outcome = "resolveFailed", !.escaped = TRUE]
     IN /\ sweeps' = Moved(r, s)
        /\ unhandledRejection(s)
  /\ UNCHANGED <<program, clients, monitoringTasks, subscriptions, transactionLog>>

(* await connection.sendTransaction(...) settles *)

sendTransaction(r, ok) ==
  /\ ~exited
  /\ r.pc = "submitting"
  /\ LET s == IF ok THEN [r EXCEPT !.pc = "confirming", !.signature = Signature(r)]
              ELSE CatchBlock(program, r, "submitFailed")
     IN /\ sweeps' = Moved(r, s)
        /\ unhandledRejection(s)
  /\ UNCHANGED <<program, clients, monitoringTasks, subscriptions, transactionLog>>

(* JSON.stringify({ type: 'transactionLog', data: transactionLog }): the text
   holds the entries the ledger has when it is made *)
Message(log) == [type |-> "transactionLog", data |-> log]

(* ws.send(message): the socket's peer receives it after those sent before *)
Send(socket, message) == [socket EXCEPT !.received = Append(@, message)]

(* Mutant: only the entry just pushed is sent *)
broadcastTransactionLog_Delta(prog, sockets, log) ==
  IF prog = "api"
  THEN [ws \in DOMAIN sockets |->
          IF sockets[ws].readyState = "OPEN"
          THEN Send(sockets[ws], Message(<<log[Len(log)]>>))
          ELSE sockets[ws]]
  ELSE sockets

(* broadcastTransactionLog(): api/index.js only; part_000 has no push channel *)
broadcastTransactionLog(prog, sockets, log) ==
  IF prog = "api"
  THEN [ws \in DOMAIN sockets |->
          IF sockets[ws].readyState = "OPEN" THEN Send(sockets[ws], Message(log))
          ELSE sockets[ws]]
  ELSE sockets

(* Mutant: the push sits where it also runs when the retrier throws *)
confirmTransaction_PushOnThrow(r, outcome) ==
  /\ ~exited
  /\ r.pc = "confirming"
  /\ LET s == confirmTransactionWithRetries(r, outcome)
     IN CASE s.pc = "returned" ->
               /\ transactionLog' = Push(transactionLog, LogEntry(s, AmountOf(program, s)))
               /\ clients' = broadcastTransactionLog(program, clients, transactionLog')
               /\ sweeps' = Moved(r, Confirmed(s))
               /\ UNCHANGED exited
          [] s.pc = "thrown" ->
               /\ transactionLog' = Push(transactionLog, LogEntry(s, AmountOf(program, s)))
               /\ sweeps' = Moved(r, CatchBlock(program, s, "confirmFailed"))
               /\ unhandledRejection(CatchBlock(program, s, "confirmFailed"))
               /\ UNCHANGED clients
          [] OTHER ->
               /\ sweeps' = Moved(r, s)
               /\ UNCHANGED <<transactionLog, exited, clients>>
  /\ UNCHANGED <<program, monitoringTasks, subscriptions>>

(* Mutant: the handler looks at the confirmation and logs only a success *)
confirmTransaction_InspectResult(r, outcome) ==
  /\ ~exited
  /\ r.pc = "confirming"
  /\ LET s == confirmTransactionWithRetries(r, outcome)
     IN CASE s.pc = "returned" /\ s.confirmation = "success" ->
               /\ transactionLog' = Push(transactionLog, LogEntry(s, AmountOf(program, s)))
               /\ clients' = broadcastTransactionLog(program, clients, transactionLog')
               /\ sweeps' = Moved(r, Confirmed(s))
               /\ UNCHANGED exited
          [] s.pc = "returned" /\ s.confirmation # "success" ->
               /\ sweeps' = Moved(r, [s EXCEPT !.pc = "done", !.outcome = "failedOnChain"])
               /\ UNCHANGED <<transactionLog, exited, clients>>
          [] s.pc = "thrown" ->
               /\ sweeps' = Moved(r, CatchBlock(program, s, "confirmFailed"))
               /\ unhandledRejection(CatchBlock(program, s, "confirmFailed"))
               /\ UNCHANGED <<transactionLog, clients>>
          [] OTHER ->
               /\ sweeps' = Moved(r, s)
               /\ UNCHANGED <<transactionLog, exited, clients>>
  /\ UNCHANGED <<program, monitoringTasks, subscriptions>>

(* await connection.confirmTransaction(...) settles inside the retrier, and
   the handler runs on to its end when the retrier returns or throws *)

confirmTransaction(r, outcome) ==
  /\ ~exited
  /\ r.pc = "confirming"
  /\ LET s == confirmTransactionWithRetries(r, outcome)
     IN CASE s.pc = "returned" ->
               /\ transactionLog' = Push(transactionLog, LogEntry(s, AmountOf(program, s)))
               /\ clients' = broadcastTransactionLog(program, clients, transactionLog')
               /\ sweeps' = Moved(r, Confirmed(s))
               /\ UNCHANGED exited
          [] s.pc = "thrown" ->
               /\ sweeps' = Moved(r, CatchBlock(program, s, "confirmFailed"))
               /\ unhandledRejection(CatchBlock(program, s, "confirmFailed"))
               /\ UNCHANGED <<transactionLog, clients>>
          [] OTHER ->
               /\ sweeps' = Moved(r, s)
               /\ UNCHANGED <<transactionLog, exited, clients>>
  /\ UNCHANGED <<program, monitoringTasks, subscriptions>>

(* GET /transactions: res.json(transactionLog) *)
listAll == transactionLog

----------------------------------------------------------------------------
Next ==
  \/ \E body \in StartRequests :
        StartMonitoring(body.seed, body.secureWalletPublicKey, body.tokenMintAddress)
  \/ \E key \in StopKeys : StopMonitoring(key)
  \/ \E id \in 1..MaxStarts, lamports \in Lamports : handleAccountChange(id, lamports)
  \/ \E id \in 1..MaxStarts, amount \in TokenAmounts : handleTokenAccountChange(id, amount)
  \/ \E r \in Frames, ok \in BOOLEAN : getAssociatedTokenAddress(r, ok)
  \/ \E r \in Frames, ok \in BOOLEAN : sendTransaction(r, ok)
  \/ \E r \in Frames, outcome \in PollOutcomes : confirmTransaction(r, outcome)

Spec == Init /\ [][Next]_vars

----------------------------------------------------------------------------
(* The push channel of api/index.js, with streaming clients *)

(* wss.on('connection', (ws) => ws.send(...)): a client connects and is sent
   the ledger as it is *)
connection(ws) ==
  /\ ~exited
  /\ program = "api"
  /\ ws \notin DOMAIN clients
  /\ clients' = [w \in DOMAIN clients \cup {ws} |->
                   IF w = ws THEN Send([readyState |-> "OPEN", received |-> <<>>],
                                       Message(transactionLog))
                   ELSE clients[w]]
  /\ UNCHANGED <<program, monitoringTasks, subscriptions, transactionLog, sweeps, exited>>

(* The socket of a client leaves the OPEN state *)
close(ws) ==
  /\ ~exited
  /\ ws \in DOMAIN clients
  /\ clients[ws].readyState = "OPEN"
  /\ clients' = [clients EXCEPT ![ws].readyState = "CLOSED"]
  /\ UNCHANGED <<program, monitoringTasks, subscriptions, transactionLog, sweeps, exited>>

NextPush ==
  \/ Next
  \/ \E ws \in Sockets : connection(ws)
  \/ \E ws \in Sockets : close(ws)

SpecPush == Init /\ [][NextPush]_vars

----------------------------------------------------------------------------
(* The retrier on its own: two calls of confirmTransactionWithRetries, each
   with its own `retries` argument, polled in any order *)

RetrierCall(retries) ==
  [handler |-> "none", from |-> "none", to |-> "none",
   observed |-> 0, pc |-> "confirming", outcome |-> "none",
   transaction |-> <<>>, submits |-> 0, signature |-> NoSignature,
   retries |-> retries, attempt |-> 0, pollLog |-> <<>>,
   confirmation |-> "none", thrown |-> 0, appended |-> 0, escaped |-> FALSE]

InitRetrier ==
  /\ program \in Programs
  /\ monitoringTasks = NoTasks
  /\ subscriptions = <<>>
  /\ transactionLog = <<>>
  /\ \E m \in 1..MaxRetries, n \in 1..MaxRetries :
        sweeps = SetToBag({RetrierCall(m)}) (+) SetToBag({RetrierCall(n)})
  /\ exited = FALSE
  /\ clients = NoClients

RetrierPoll(r, outcome) ==
  /\ r.pc = "confirming"
  /\ sweeps' = Moved(r, confirmTransactionWithRetries(r, outcome))
  /\ UNCHANGED <<program, clients, monitoringTasks, subscriptions, transactionLog, exited>>

NextRetrier == \E r \in Frames, outcome \in PollOutcomes : RetrierPoll(r, outcome)

SpecRetrier == InitRetrier /\ [][NextRetrier]_vars

----------------------------------------------------------------------------
(* Definitions used by the properties *)

IsPrefix(s, t) == Len(s) <= Len(t) /\ SubSeq(t, 1, Len(s)) = s

IsNative(r) == r.handler = "handleAccountChange"

Answers == {"success", "chainFailure"}

AllErrors(log) == \A i \in 1..Len(log) : log[i] = "error"

RECURSIVE SumAppended(_)
SumAppended(S) ==
  IF S = {} THEN 0
  ELSE LET r == CHOOSE x \in S : TRUE
       IN CopiesIn(r, sweeps) * r.appended + SumAppended(S \ {r})

(* The number of pushes the handler invocations have made *)
TotalAppended == SumAppended(Frames)

(* The address was started, and its latest subscription was removed by a
   stop: no start has followed the last successful stop *)
Stopped(a) ==
  \E id \in DOMAIN subscriptions :
     /\ subscriptions[id].address = a
     /\ ~Active(id)
     /\ \A j \in DOMAIN subscriptions : j > id => subscriptions[j].address # a

----------------------------------------------------------------------------
(* C1: every notification of a positive native balance b builds and submits
   nothing and leaves no ledger entry when b <= 5000, and builds and submits
   exactly one transfer of exactly b - 5000 when b > 5000. *)
C1_FeeReserve ==
  \A r \in Frames : IsNative(r) =>
     IF r.observed <= transactionFee
     THEN r.transaction = <<>> /\ r.submits = 0 /\ r.appended = 0
     ELSE /\ r.transaction =
               << [op |-> "SystemProgram.transfer", amount |-> r.observed - transactionFee] >>
          /\ r.submits = 1

(* C2: a sweep appends at most one ledger entry; it has appended one exactly
   when it ended Confirmed, and then its submission had returned a signature
   and its confirmation had returned an answer; a sweep that ended any other
   way appended none; the ledger holds exactly the entries so appended. *)
C2_LedgerEntries ==
  /\ \A r \in Frames :
       /\ r.appended \in {0, 1}
       /\ r.appended = 1 <=> (r.pc = "done" /\ r.outcome = "confirmed")
       /\ r.appended = 1 =>
            /\ r.submits = 1
            /\ r.signature # NoSignature
            /\ r.confirmation \in Answers
            /\ \E i \in 1..Len(transactionLog) : transactionLog[i].signature = r.signature
       /\ r.outcome \in {"insufficient", "resolveFailed", "submitFailed", "confirmFailed"}
            => r.appended = 0
  /\ Len(transactionLog) = TotalAppended

C2_Witness ==
  /\ \E r \in Frames : r.outcome = "confirmed"
  /\ \E r \in Frames : r.outcome = "confirmFailed"
  /\ Len(transactionLog) = 1

(* C3: a call of the retrier with retries >= 1 makes at most `retries` polls;
   every poll but the last one made raised an error; the call has returned as
   soon as a poll yields an answer, and has ended once `retries` polls are made. *)
C3_BoundedPolls ==
  \A r \in Frames : r.retries >= 1 =>
     /\ Len(r.pollLog) <= r.retries
     /\ \A i \in 1..(Len(r.pollLog) - 1) : r.pollLog[i] = "error"
     /\ (\E i \in 1..Len(r.pollLog) : r.pollLog[i] \in Answers) =>
           (r.pc = "returned" /\ r.confirmation = r.pollLog[Len(r.pollLog)])
     /\ Len(r.pollLog) = r.retries => r.pc \in {"returned", "thrown"}
     /\ r.pc = "returned" => r.confirmation \in Answers
     /\ r.pc = "thrown" => AllErrors(r.pollLog)

C3_Witness ==
  \E r \in Frames :
     r.pc = "returned" /\ r.retries = MaxRetries /\ Len(r.pollLog) = MaxRetries

(* C4: a sweep ends with its confirmation failed exactly when all `retries`
   polls raised an error; the error propagated is the one the final poll
   raised, and the sweep has appended no ledger entry. *)
C4_ExhaustedRetries ==
  /\ \A r \in Frames :
       /\ (Len(r.pollLog) = r.retries /\ AllErrors(r.pollLog))
             <=> (r.pc = "done" /\ r.outcome = "confirmFailed")
       /\ r.outcome = "confirmFailed" =>
             /\ r.thrown = r.retries
             /\ r.thrown = Len(r.pollLog)
             /\ r.appended = 0
       /\ r.outcome # "confirmFailed" => r.thrown = 0
  /\ (\A r \in Frames : r.outcome # "confirmed") => transactionLog = <<>>

C4_Witness ==
  \E r \in Frames :
     r.outcome = "confirmFailed" /\ r.thrown = DefaultRetries /\ transactionLog = <<>>

(* C5: whenever a poll of a sweep settles, the sweep keeps its signature and
   its single submission; a poll that raises an error leaves the ledger as
   it is; a poll that answers, after k < retries polls that all raised an
   error, appends exactly one entry, of status confirmed and of that
   signature, which is the only entry the sweep has appended. *)
C5_RetryThenConfirm ==
  [][\A r \in Frames :
       (r.pc = "confirming" /\ CopiesIn(r, sweeps') < CopiesIn(r, sweeps)) =>
         \E s \in BagToSet(sweeps') :
            /\ CopiesIn(s, sweeps') > CopiesIn(s, sweeps)
            /\ s.signature = r.signature
            /\ s.submits = 1
            /\ CASE s.pc = "confirming" ->
                      /\ s.pollLog = Append(r.pollLog, "error")
                      /\ s.appended = 0
                      /\ transactionLog' = transactionLog
                 [] s.outcome = "confirmFailed" ->
                      /\ s.pollLog = Append(r.pollLog, "error")
                      /\ s.appended = 0
                      /\ transactionLog' = transactionLog
                 [] s.outcome = "confirmed" ->
                      /\ Len(r.pollLog) < r.retries
                      /\ AllErrors(r.pollLog)
                      /\ s.appended = 1
                      /\ Len(transactionLog') = Len(transactionLog) + 1
                      /\ SubSeq(transactionLog', 1, Len(transactionLog)) = transactionLog
                      /\ transactionLog'[Len(transactionLog')].status = "confirmed"
                      /\ transactionLog'[Len(transactionLog')].signature = r.signature
                 [] OTHER -> FALSE
    ]_vars

(* one sweep has confirmed and the ledger holds one entry, while another
   sweep has had retries - 1 failed polls and has added nothing *)
C5_Witness ==
  /\ \E r \in Frames : r.outcome = "confirmed" /\ r.submits = 1 /\ r.appended = 1
  /\ \E r \in Frames :
        r.pc = "confirming" /\ Len(r.pollLog) = DefaultRetries - 1 /\ r.submits = 1
  /\ Len(transactionLog) = 1

(* C6: in every reachable state each watched address has at most one
   subscription that has not been removed. *)
C6_OneSubscriptionPerAddress ==
  \A a \in Addresses : Cardinality(ActiveFor(a)) <= 1

(* C7: no handler invocation starts for an address whose last successful
   stop has not been followed by a start. *)
C7_NoSweepAfterStop ==
  [][\A id \in DOMAIN subscriptions : \A n \in Lamports \cup TokenAmounts :
       (n > 0 /\ (handleAccountChange(id, n) \/ handleTokenAccountChange(id, n)))
          => ~Stopped(subscriptions[id].address)
    ]_vars

(* C8: a stop request for a key that has no registry entry is answered 400. *)
C8_StopUnknownIsNotFound ==
  \A k \in StopKeys : k \notin DOMAIN monitoringTasks => StopStatus(monitoringTasks, k) = 400

(* C9: a stop request for an address that has a registry entry is answered
   200, removes the subscription the entry stores, and no other, with the
   removal call that matches the call that opened it, and deletes the entry;
   from then on, until the next start, a stop of that address is answered 400. *)
C9_StopRemovesEntry ==
  [][/\ \A k \in StopKeys :
          (k \in DOMAIN monitoringTasks /\ StopMonitoring(k)) =>
             LET id == monitoringTasks[k].subscriptionId
             IN /\ StopStatus(monitoringTasks, k) = 200
                /\ Active(id)
                /\ subscriptions[id].address = k
                /\ subscriptions'[id].removedBy = MatchingRemoval(subscriptions[id].subscribedBy)
                /\ \A j \in DOMAIN subscriptions : j # id => subscriptions'[j] = subscriptions[j]
                /\ DOMAIN monitoringTasks' = DOMAIN monitoringTasks \ {k}
     /\ \A a \in Addresses :
          Stopped(a)' => (a \notin DOMAIN monitoringTasks' /\ StopStatus(monitoringTasks', a) = 400)
    ]_vars

(* a token watch and a native watch have each been stopped *)
C9_Witness ==
  /\ \E id \in DOMAIN subscriptions :
        subscriptions[id].removedBy = "removeProgramAccountChangeListener"
  /\ \E id \in DOMAIN subscriptions :
        subscriptions[id].removedBy = "removeAccountChangeListener"
  /\ \E a \in Addresses : Stopped(a) /\ StopStatus(monitoringTasks, a) = 400

(* C10: the ledger read before a step is a prefix of the ledger read after it. *)
C10_AppendOnly == [][IsPrefix(listAll, listAll')]_vars

C10_Witness == Len(listAll) = 2 /\ listAll[1] # listAll[2]

(* C11: no error raised in a handler escapes it, and the process, with its
   subscriptions, stays up to deliver later notifications. *)
C11_ErrorsCaught ==
  /\ \A r \in Frames : ~r.escaped
  /\ ~exited

(* A pipeline that is under way; a step that is a successful stop; the next
   step of a pipeline can be taken *)
InFlight(r) == r.pc \in {"resolving", "submitting", "confirming"}

StopStep == Len(subscriptions') = Len(subscriptions) /\ subscriptions' # subscriptions

CanStep(r) ==
  CASE r.pc = "resolving" -> ENABLED getAssociatedTokenAddress(r, TRUE)
    [] r.pc = "submitting" -> ENABLED sendTransaction(r, TRUE)
    [] r.pc = "confirming" -> ENABLED confirmTransaction(r, "success")
    [] OTHER -> FALSE

(* C12: a successful stop leaves every pipeline and the ledger as they are;
   a pipeline under way can take its next step whether or not its address is
   still watched; and a pipeline that is confirmed when its address has no
   open subscription left appends its entry then. *)
C12_StopKeepsPipelines ==
  /\ [](\A r \in Frames : (InFlight(r) /\ ~exited) => CanStep(r))
  /\ [][/\ StopStep => (sweeps' = sweeps /\ transactionLog' = transactionLog)
        /\ \A r \in Frames :
             (r.pc = "confirming" /\ ActiveFor(r.from) = {}
                /\ CopiesIn(r, sweeps') < CopiesIn(r, sweeps)) =>
               \E s \in BagToSet(sweeps') :
                  /\ CopiesIn(s, sweeps') > CopiesIn(s, sweeps)
                  /\ s.pc \in {"confirming", "done"}
                  /\ s.outcome = "confirmed" =>
                       /\ s.appended = 1
                       /\ transactionLog' = Append(transactionLog, LogEntry(s, AmountOf(program, s)))
       ]_vars

(* the address was stopped, none of its subscriptions is open, and a
   pipeline started before the stop is still confirming and can go on *)
C12_Witness ==
  \E r \in Frames :
     /\ r.pc = "confirming"
     /\ Stopped(r.from)
     /\ ActiveFor(r.from) = {}
     /\ CanStep(r)

(* The ordered pair of operations of a token sweep of amount a *)
TokenPair(a) ==
  << [op |-> "createAssociatedTokenAccount", amount |-> 0],
     [op |-> "createTransfer", amount |-> a] >>

(* C13 as stated: every token notification of a positive amount a that has
   been handled built the pair [create the destination's associated token
   account, transfer a] and submitted it once. *)
C13_TokenPairAlways ==
  \A r \in Frames : (~IsNative(r) /\ r.pc = "done") =>
     (r.transaction = TokenPair(r.observed) /\ r.submits = 1)

(* C13 as amended: a token notification of a positive amount a builds
   nothing while, and when, the destination's associated token address does
   not resolve; once it resolves, exactly the pair is built, whatever a is,
   and submitted once as one transaction; the sweep has an entry only when
   that submission returned a signature, and the entry is of that transaction
   and of amount a. *)
C13_TokenPair ==
  \A r \in Frames : ~IsNative(r) =>
     /\ r.observed > 0
     /\ IF r.pc = "resolving" \/ r.outcome = "resolveFailed"
        THEN r.transaction = <<>> /\ r.submits = 0 /\ r.appended = 0
        ELSE r.transaction = TokenPair(r.observed) /\ r.submits = 1
     /\ (r.pc = "submitting" \/ r.outcome = "submitFailed") =>
           (r.signature = NoSignature /\ r.appended = 0)
     /\ r.appended = 1 =>
           /\ r.signature = [signer |-> r.from, transaction |-> TokenPair(r.observed)]
           /\ \E i \in 1..Len(transactionLog) :
                 /\ transactionLog[i].signature = r.signature
                 /\ transactionLog[i].amount = [num |-> r.observed, den |-> 1]

(* a token amount below the native fee reserve was swept and logged, and
   another token sweep had its submission rejected and logged nothing *)
C13_Witness ==
  /\ \E r \in Frames :
        ~IsNative(r) /\ r.observed < transactionFee /\ r.appended = 1 /\ Len(r.transaction) = 2
  /\ \E r \in Frames : ~IsNative(r) /\ r.outcome = "submitFailed"
  /\ Len(transactionLog) = 1

(* C14: the ledger entry of every confirmed native sweep of a balance
   b > transactionFee records the amount transferred, b - transactionFee
   lamports, in SOL. *)
C14_LoggedAmount ==
  \A r \in Frames :
     (IsNative(r) /\ r.outcome = "confirmed" /\ r.observed > transactionFee) =>
        \E i \in 1..Len(transactionLog) :
           /\ transactionLog[i].signature = r.signature
           /\ transactionLog[i].amount =
                [num |-> r.observed - transactionFee, den |-> LAMPORTS_PER_SOL]
           /\ transactionLog[i].amount.num = r.transaction[1].amount

(* A step that is a successful start *)
StartStep == Len(subscriptions') = Len(subscriptions) + 1

(* C15: a successful start, also of an address that already has an entry,
   leaves one entry under the address, holding the handle and the
   tokenMintAddress of this start, and leaves the other entries alone; a
   successful stop removes the subscription of the entry it deletes, which
   is the one the latest start of the address opened. *)
C15_SecondStartReplaces ==
  [][/\ StartStep =>
          LET id == Len(subscriptions')
              a == subscriptions'[id].address
          IN /\ DOMAIN monitoringTasks' = DOMAIN monitoringTasks \cup {a}
             /\ monitoringTasks'[a] =
                  [subscriptionId |-> id,
                   tokenMintAddress |-> subscriptions'[id].tokenMintAddress]
             /\ \A k \in DOMAIN monitoringTasks \ {a} : monitoringTasks'[k] = monitoringTasks[k]
     /\ StopStep =>
          \A a \in DOMAIN monitoringTasks \ DOMAIN monitoringTasks' :
             LET id == monitoringTasks[a].subscriptionId
             IN /\ subscriptions[id].removedBy = "none"
                /\ subscriptions'[id].removedBy # "none"
                /\ \A j \in DOMAIN subscriptions : subscriptions[j].address = a => j <= id
    ]_vars

(* two starts of one address with different asset kinds and no stop in
   between, then a stop: the second subscription is the one removed *)
C15_Witness ==
  /\ Len(subscriptions) = 2
  /\ subscriptions[1].address = subscriptions[2].address
  /\ subscriptions[1].tokenMintAddress # subscriptions[2].tokenMintAddress
  /\ subscriptions[1].removedBy = "none"
  /\ subscriptions[2].removedBy = RemovalCall(subscriptions[2].tokenMintAddress)
  /\ subscriptions[2].address \notin DOMAIN monitoringTasks

(* C16: a client that connects is sent the whole ledger at once; every step
   that appends an entry sends each open client one message, the whole
   ledger with the new entry in it, and sends a client that is not open
   nothing; so an open client's latest message is the ledger as it is, and
   every message a client received is a prefix of the one received next. *)
C16_Broadcast ==
  [][/\ \A ws \in DOMAIN clients' \ DOMAIN clients :
          clients'[ws] = [readyState |-> "OPEN", received |-> << Message(listAll) >>]
     /\ \A ws \in DOMAIN clients :
          /\ ws \in DOMAIN clients'
          /\ IF Len(listAll') > Len(listAll) /\ clients[ws].readyState = "OPEN"
             THEN /\ clients'[ws].received = Append(clients[ws].received, Message(listAll'))
                  /\ Len(listAll') = Len(listAll) + 1
                  /\ \E s \in BagToSet(sweeps') :
                        /\ CopiesIn(s, sweeps') > CopiesIn(s, sweeps)
                        /\ s.outcome = "confirmed"
                        /\ listAll'[Len(listAll')].signature = s.signature
             ELSE clients'[ws].received = clients[ws].received
     /\ \A ws \in DOMAIN clients' :
          LET got == clients'[ws].received
          IN /\ Len(got) >= 1
             /\ \A i \in 1..Len(got) : got[i].type = "transactionLog"
             /\ \A i \in 1..(Len(got) - 1) : IsPrefix(got[i].data, got[i + 1].data)
             /\ clients'[ws].readyState = "OPEN" => got[Len(got)].data = listAll'
    ]_vars

(* a client connected before any sweep and has received the empty ledger,
   then the ledger of one entry, then the ledger of two *)
C16_Witness ==
  \E ws \in DOMAIN clients :
     /\ clients[ws].readyState = "OPEN"
     /\ Len(clients[ws].received) = 3
     /\ clients[ws].received[1].data = <<>>
     /\ clients[ws].received[3].data = listAll
     /\ Len(listAll) = 2

(* A start request whose key derivation fails or whose destination key is
   malformed *)
FailingStart(body) ==
  derivePath(body.seed) = "throws" \/ ~ValidPublicKey(body.secureWalletPublicKey)

(* C17: a start request whose key derivation fails, or whose destination key
   is invalid, is answered 500, and no step that handles one changes the
   subscriptions or the registry. *)
C17_FailedStartChangesNothing ==
  /\ [](\A body \in StartRequests :
          FailingStart(body) => StartStatus(body.seed, body.secureWalletPublicKey) = 500)
  /\ [][\A body \in StartRequests :
          (FailingStart(body)
             /\ StartMonitoring(body.seed, body.secureWalletPublicKey, body.tokenMintAddress))
           => UNCHANGED <<monitoringTasks, subscriptions>>
       ]_vars

(* the address has a native entry and an open subscription when a token
   start of the same address with a malformed destination is handled *)
C17_Witness ==
  /\ "AddrA" \in DOMAIN monitoringTasks
  /\ monitoringTasks["AddrA"].tokenMintAddress = "undefined"
  /\ ActiveFor("AddrA") # {}
  /\ Len(subscriptions) < MaxStarts
  /\ \E body \in StartRequests :
        /\ FailingStart(body) /\ derivePath(body.seed) = "AddrA"
        /\ body.tokenMintAddress = "MintA"
        /\ StartStatus(body.seed, body.secureWalletPublicKey) = 500
        /\ ENABLED StartMonitoring(body.seed, body.secureWalletPublicKey, body.tokenMintAddress)

(* C18: while the process runs, an open subscription delivers a notification
   of a positive amount to its handler whatever the sweeps under way (up to
   MaxSweeps invocations in all), and every native transfer submitted is
   computed from the balance its own notification reported, whatever the
   other sweeps of the address have submitted. *)
C18_NotSerialized ==
  /\ \A id \in DOMAIN subscriptions :
        (~exited /\ Active(id) /\ BagCardinality(sweeps) < MaxSweeps) =>
           IF subscriptions[id].subscribedBy = "onAccountChange"
           THEN \A n \in Lamports : n > 0 => ENABLED handleAccountChange(id, n)
           ELSE \A n \in TokenAmounts : n > 0 => ENABLED handleTokenAccountChange(id, n)
  /\ \A r \in Frames :
        (IsNative(r) /\ r.submits > 0) =>
           (r.submits = 1 /\ r.transaction[1].amount = r.observed - transactionFee)

(* two sweeps of one address have each submitted a transfer of the whole
   balance they observed, and neither is confirmed *)
C18_Witness ==
  \E r, s \in Frames :
     /\ r # s \/ CopiesIn(r, sweeps) >= 2
     /\ r.from = s.from
     /\ IsNative(r) /\ IsNative(s)
     /\ r.pc \in {"submitting", "confirming"} /\ s.pc \in {"submitting", "confirming"}
     /\ r.submits = 1 /\ s.submits = 1
     /\ r.observed > transactionFee /\ s.observed > transactionFee
     /\ transactionLog = <<>>

(* The outcomes of a sweep that C19 names *)
SweepOutcomes == {"confirmed", "insufficient", "submitFailed", "confirmFailed"}

(* C19: a step of a notification handler leaves the registry and every
   subscription as they are; and the step in which a sweep ends, Confirmed,
   with insufficient funds, with its submission rejected or with its
   confirmation retries exhausted, leaves the process running, so that the
   next notification of a positive amount starts a new sweep. *)
C19_HandlerLeavesWatch ==
  [][sweeps' # sweeps =>
        /\ monitoringTasks' = monitoringTasks
        /\ subscriptions' = subscriptions
        /\ \A s \in BagToSet(sweeps') :
              (CopiesIn(s, sweeps') > CopiesIn(s, sweeps) /\ s.outcome \in SweepOutcomes)
                 => ~exited'
    ]_vars

(* C20: every ledger entry has status 'confirmed'; a sweep has appended its
   entry exactly when its confirmation returned an answer, whether the
   answer reports success or an on-chain failure of the transaction. *)
C20_AlwaysConfirmed ==
  /\ \A i \in 1..Len(transactionLog) : transactionLog[i].status = "confirmed"
  /\ \A r \in Frames :
        /\ r.confirmation \in Answers <=> r.appended = 1
        /\ r.confirmation \in Answers =>
              /\ r.outcome = "confirmed"
              /\ \E i \in 1..Len(transactionLog) :
                    /\ transactionLog[i].signature = r.signature
                    /\ transactionLog[i].status = "confirmed"

(* a sweep whose confirmation reported an on-chain failure of the
   transaction has its entry, of status confirmed, in the ledger *)
C20_Witness ==
  \E r \in Frames :
     /\ r.confirmation = "chainFailure"
     /\ r.appended = 1
     /\ Len(transactionLog) = 1
     /\ transactionLog[1].signature = r.signature
     /\ transactionLog[1].status = "confirmed"

====
